---- MODULE Spec2Model ----
(***************************************************************************)
(* A model of the betzbotz trading bot: the trading engine and its ledger  *)
(* (src/polymarket/trading.py), the market monitor                         *)
(* (src/polymarket/markets.py), the gateway client they call               *)
(* (src/polymarket/client.py), and the two control flows that drive the    *)
(* engine: the periodic loop (src/main.py) and the /sell request handler   *)
(* (src/api/server.py), and the bot's start/stop life cycle (src/main.py,  *)
(* the /bot/start and /bot/stop routes of src/api/server.py).              *)
(*                                                                         *)
(* Python floats are modelled as exact rationals <<n, d>> in lowest terms  *)
(* with d > 0.  An optional value (a Python value that may be None) is a   *)
(* sequence: <<>> is None, <<v>> is the value v.                           *)
(***************************************************************************)
EXTENDS Integers, Sequences, FiniteSets, TLC

VARIABLES
    positions,      \* TradingEngine.positions: the open list, in insertion order
    trade_history,  \* TradingEngine.trade_history: to_dict snapshots of closed positions
    total_pnl,      \* TradingEngine.total_pnl: the realized-PnL accumulator
    tiers,          \* Config.TAKE_PROFIT_TIERS: sequence of <<multiplier, percent>>
    account,        \* PolymarketClient.account is set (the wallet key loaded)
    steps,          \* number of calls made so far (also the clock of created_at)
    last,           \* record of the last call: its arguments, result, gateway calls, pre-state
    seen_markets,   \* MarketMonitor.seen_markets
    filter_runs,    \* per market id, how often it was handed to passes_filters
    rejected,       \* the market ids passes_filters has turned down so far
    scans,          \* number of scan_new_markets calls made so far
    last_scan,      \* record of the last scan_new_markets call
    probe,          \* record of the last direct passes_filters / analyze_market call
    flow,           \* the two control flows that call the engine: where each is, and
                    \* what its current or last call holds
    bot             \* the BetzBotz instance: its running flag and start time, the
                    \* tasks created for bot.start(), the requests served so far

engine_vars == <<positions, trade_history, total_pnl, tiers, account, steps, last>>
monitor_vars == <<seen_markets, filter_runs, rejected, scans, last_scan>>
vars == <<engine_vars, monitor_vars, probe, flow, bot>>

\* ------------------------------------------------------------------ bounds
MaxSteps == 3
MaxPositions == 2
MaxScans == 2
MaxMarkets == 2
MaxTokens == 2
MaxTasks == 2
MaxRequests == 4
MaxCycles == 2

\* ------------------------------------------------- float arithmetic (exact)
Abs(n) == IF n < 0 THEN -n ELSE n

RECURSIVE GCD(_, _)
GCD(a, b) == IF b = 0 THEN a ELSE GCD(b, a % b)

\* n/d in lowest terms, d > 0
Rat(n, d) ==
    LET s == IF d < 0 THEN -1 ELSE 1
        g == GCD(Abs(n), Abs(d))
    IN  IF n = 0 THEN <<0, 1>> ELSE <<(s * n) \div g, (s * d) \div g>>

Zero == <<0, 1>>
FromInt(n) == <<n, 1>>

\* the factors are reduced before they are multiplied, so that intermediate
\* values stay as small as the results
RAdd(a, b) ==
    LET g == GCD(a[2], b[2])
    IN  Rat(a[1] * (b[2] \div g) + b[1] * (a[2] \div g), (a[2] \div g) * b[2])
RNeg(a) == <<-a[1], a[2]>>
RSub(a, b) == RAdd(a, RNeg(b))
RMul(a, b) ==
    LET g1 == GCD(Abs(a[1]), b[2])
        g2 == GCD(Abs(b[1]), a[2])
    IN  IF a[1] = 0 \/ b[1] = 0 THEN <<0, 1>>
        ELSE <<(a[1] \div g1) * (b[1] \div g2), (a[2] \div g2) * (b[2] \div g1)>>
RDiv(a, b) == RMul(a, IF b[1] < 0 THEN <<-b[2], -b[1]>> ELSE <<b[2], b[1]>>)
RLt(a, b) ==
    LET g == GCD(a[2], b[2])
    IN  a[1] * (b[2] \div g) < b[1] * (a[2] \div g)
RLe(a, b) == ~RLt(b, a)

\* Python int(x): truncation toward zero
IntOf(a) == IF a[1] >= 0 THEN a[1] \div a[2] ELSE -((-a[1]) \div a[2])

\* Python round(x, k) for k = Len of the decimal scale: nearest multiple of
\* 1/scale, ties to the even one
RoundTo(a, scale) ==
    LET n == a[1] * scale
        d == a[2]
        q == n \div d
        r == n - q * d
        m == IF 2 * r < d THEN q
             ELSE IF 2 * r > d THEN q + 1
             ELSE IF q % 2 = 0 THEN q ELSE q + 1
    IN  Rat(m, scale)

Min(S) == CHOOSE x \in S : \A y \in S : x <= y

\* ------------------------------------------------------- configuration
\* Config.MAX_BET_PER_SIDE, default "0.50"
MAX_BET_PER_SIDE == <<1, 2>>

\* Config.TAKE_PROFIT_TIERS with the default environment
DefaultTiers ==
    << <<FromInt(2), FromInt(25)>>, <<FromInt(3), FromInt(25)>>,
       <<FromInt(5), FromInt(25)>>, <<FromInt(10), FromInt(25)>> >>

\* the tier list under other TAKE_PROFIT_TIER_n_* environments: the floats are
\* taken as given, in the order written (not sorted, percent not validated)
TierConfigs ==
    { DefaultTiers,
      << <<FromInt(3), FromInt(100)>>, <<FromInt(2), <<101, 2>> >> >> }

\* ------------------------------------------------------------ Position
Position(data) ==
    [ id              |-> data.token_id,
      market_id       |-> data.market_id,
      market_question |-> data.market_question,
      token_id        |-> data.token_id,
      side            |-> data.side,
      entry_price     |-> data.entry_price,
      shares          |-> data.shares,
      current_price   |-> data.current_price,
      created_at      |-> data.created_at,
      status          |-> data.status ]

cost_basis(p) == RMul(p.entry_price, p.shares)

current_value(p) == RMul(p.current_price, p.shares)

unrealized_pnl(p) == RSub(current_value(p), cost_basis(p))

unrealized_pnl_pct(p) ==
    IF cost_basis(p) = Zero THEN Zero
    ELSE RMul(RDiv(unrealized_pnl(p), cost_basis(p)), FromInt(100))

to_dict(p) ==
    [ id                 |-> p.id,
      market_id          |-> p.market_id,
      market_question    |-> p.market_question,
      token_id           |-> p.token_id,
      side               |-> p.side,
      entry_price        |-> p.entry_price,
      shares             |-> p.shares,
      current_price      |-> p.current_price,
      unrealized_pnl     |-> RoundTo(unrealized_pnl(p), 100),
      unrealized_pnl_pct |-> RoundTo(unrealized_pnl_pct(p), 10),
      created_at         |-> p.created_at,
      status             |-> p.status ]

\* ------------------------------------------------------ gateway client
\* place_order: fails only when the wallet is not initialised; otherwise the
\* mock success
place_order(acct, token_id, side, price, size) ==
    IF ~acct THEN <<>>
    ELSE << [orderId |-> "mock-order-id", status |-> "placed"] >>

\* get_positions as seen by sell_position: raw is the venue's answer for the
\* token (<<>>: request failed or no such position; <<size>>: its size); with
\* no wallet address the request is not made and the list is empty
get_positions(acct, raw) == IF ~acct THEN <<>> ELSE raw

sell_position(acct, raw, token_id, percent) ==
    LET position == get_positions(acct, raw)
    IN  IF position = <<>> THEN <<>>
        ELSE LET size == RMul(position[1], Rat(percent, 100))
             IN  IF RLe(size, Zero) THEN <<>>
                 ELSE << [status |-> "sold", size |-> size] >>

\* ------------------------------------------------------ trading engine
\* The engine's state as Python sees it: objs are the Position objects (an
\* object keeps its index while a call runs, so that a reference held across
\* a list replacement still sees in-place updates), plist is self.positions
\* as references into objs.
Load(ps, th, pnl) ==
    [ objs |-> ps, plist |-> [i \in 1..Len(ps) |-> i],
      trade_history |-> th, total_pnl |-> pnl ]

Store(e) == [i \in 1..Len(e.plist) |-> e.objs[e.plist[i]]]

RECURSIVE FilterOut(_, _, _)
\* [p for p in self.positions if p.token_id != token_id]
FilterOut(objs, plist, token_id) ==
    IF plist = <<>> THEN <<>>
    ELSE LET rest == FilterOut(objs, Tail(plist), token_id)
         IN  IF objs[Head(plist)].token_id # token_id
             THEN <<Head(plist)>> \o rest ELSE rest

\* faulty variant of find_position: the token is not compared
find_position_any(e, token_id) == IF e.plist = <<>> THEN 0 ELSE e.plist[1]

\* next((p for p in self.positions if p.token_id == token_id), None): the
\* reference of the first match, 0 for None
find_position(e, token_id) ==
    LET S == {i \in 1..Len(e.plist) : e.objs[e.plist[i]].token_id = token_id}
    IN  IF S = {} THEN 0 ELSE e.plist[Min(S)]

\* size = Config.MAX_BET_PER_SIDE / entry_price if entry_price > 0 else 0
order_size(entry_price) ==
    IF RLt(Zero, entry_price) THEN RDiv(MAX_BET_PER_SIDE, entry_price) ELSE Zero

\* faulty variant of open_position: the position is created whatever the order returned
open_position_unchecked(e, result, opportunity, size, now) ==
    LET position == Position(
            [ token_id        |-> opportunity.token_id,
              market_id       |-> opportunity.market_id,
              market_question |-> opportunity.market_question,
              side            |-> opportunity.side,
              entry_price     |-> opportunity.entry_price,
              shares          |-> size,
              current_price   |-> opportunity.entry_price,
              created_at      |-> now,
              status          |-> "open" ])
    IN  [ e |-> [e EXCEPT !.objs  = Append(@, position),
                          !.plist = Append(@, Len(e.objs) + 1)],
          ret |-> IF result = <<>> THEN <<>> ELSE <<position>> ]

\* the part of execute_buy after the order: "if result:" creates and appends
\* the position and returns it
open_position(e, result, opportunity, size, now) ==
    IF result = <<>> THEN [e |-> e, ret |-> <<>>]
    ELSE
    LET position == Position(
            [ token_id        |-> opportunity.token_id,
              market_id       |-> opportunity.market_id,
              market_question |-> opportunity.market_question,
              side            |-> opportunity.side,
              entry_price     |-> opportunity.entry_price,
              shares          |-> size,
              current_price   |-> opportunity.entry_price,
              created_at      |-> now,
              status          |-> "open" ])
        e1 == [e EXCEPT !.objs  = Append(@, position),
                        !.plist = Append(@, Len(e.objs) + 1)]
    IN  \* logger.info(position.market_question[:40]) raises TypeError on None,
        \* after the append; the except clause logs and the call returns None
        IF position.market_question = <<>> THEN [e |-> e1, ret |-> <<>>]
        ELSE [e |-> e1, ret |-> <<position>>]

execute_buy(e, acct, opportunity, now) ==
    LET token_id    == opportunity.token_id
        entry_price == opportunity.entry_price
        size        == order_size(entry_price)
    IN  IF RLe(size, Zero) THEN [e |-> e, ret |-> <<>>, gw |-> <<>>]
        ELSE
        LET result == place_order(acct, token_id, "BUY", entry_price, size)
            call == [fn |-> "place_order", token_id |-> token_id, side |-> "BUY",
                     price |-> entry_price, size |-> size, result |-> result]
            r == open_position(e, result, opportunity, size, now)
        IN  [e |-> r.e, ret |-> r.ret, gw |-> <<call>>]

\* faulty variant of full_close: the position's value is realized, not its gain
full_close_value(e, ref, token_id) ==
    LET position == e.objs[ref]
        closed == [position EXCEPT !.status = "closed"]
        objs1 == [e.objs EXCEPT ![ref] = closed]
    IN  [ objs |-> objs1,
          plist |-> FilterOut(objs1, e.plist, token_id),
          trade_history |-> Append(e.trade_history, to_dict(closed)),
          total_pnl |-> RAdd(e.total_pnl, current_value(position)) ]

\* faulty variant of full_close: the history is assigned, not appended to
full_close_reset(e, ref, token_id) ==
    LET position == e.objs[ref]
        closed == [position EXCEPT !.status = "closed"]
        objs1 == [e.objs EXCEPT ![ref] = closed]
    IN  [ objs |-> objs1,
          plist |-> FilterOut(objs1, e.plist, token_id),
          trade_history |-> <<to_dict(closed)>>,
          total_pnl |-> RAdd(e.total_pnl, unrealized_pnl(position)) ]

\* the percent >= 100 branch of execute_sell
full_close(e, ref, token_id) ==
    LET position == e.objs[ref]
        closed == [position EXCEPT !.status = "closed"]
        objs1 == [e.objs EXCEPT ![ref] = closed]
    IN  [ objs |-> objs1,
          plist |-> FilterOut(objs1, e.plist, token_id),
          trade_history |-> Append(e.trade_history, to_dict(closed)),
          total_pnl |-> RAdd(e.total_pnl, unrealized_pnl(position)) ]

\* faulty variant of partial_close: percent/100 shares are sold, not that fraction
partial_close_flat(e, ref, percent) ==
    [e EXCEPT !.objs[ref].shares = RSub(e.objs[ref].shares, Rat(percent, 100))]

\* faulty variant of partial_close: the percent is taken of the size the
\* position was bought with
partial_close_original(e, ref, percent) ==
    LET position == e.objs[ref]
        sold_shares == RMul(order_size(position.entry_price), Rat(percent, 100))
    IN  [e EXCEPT !.objs[ref].shares = RSub(position.shares, sold_shares)]

\* the partial branch of execute_sell
partial_close(e, ref, percent) ==
    LET position == e.objs[ref]
        sold_shares == RMul(position.shares, Rat(percent, 100))
    IN  [e EXCEPT !.objs[ref].shares = RSub(position.shares, sold_shares)]

\* faulty variant of apply_sell: the full-close branch is taken for every
\* percent that is not a partial one (percent <= 0 included)
apply_sell_close_rest(e, ref, result, token_id, percent) ==
    IF result = <<>> THEN [e |-> e, ret |-> <<>>]
    ELSE [ e |-> IF percent > 0 /\ percent < 100 THEN partial_close(e, ref, percent)
                 ELSE full_close(e, ref, token_id),
           ret |-> << [status |-> "sold", percent |-> percent] >> ]

\* faulty variant of apply_sell: the ledger is updated before the result is looked at
apply_sell_eager(e, ref, result, token_id, percent) ==
    [ e |-> IF percent >= 100 THEN full_close(e, ref, token_id)
            ELSE partial_close(e, ref, percent),
      ret |-> IF result = <<>> THEN <<>>
              ELSE << [status |-> "sold", percent |-> percent] >> ]

\* the part of execute_sell after the gateway call: "if result:" updates the
\* ledger and returns the confirmation
apply_sell(e, ref, result, token_id, percent) ==
    IF result = <<>> THEN [e |-> e, ret |-> <<>>]
    ELSE [ e |-> IF percent >= 100 THEN full_close(e, ref, token_id)
                 ELSE partial_close(e, ref, percent),
           ret |-> << [status |-> "sold", percent |-> percent] >> ]

execute_sell(e, acct, raw, token_id, percent) ==
    LET ref == find_position(e, token_id)
    IN  IF ref = 0 THEN [e |-> e, ret |-> <<>>, gw |-> <<>>]
        ELSE
        LET result == sell_position(acct, raw, token_id, percent)
            call == [fn |-> "sell_position", token_id |-> token_id,
                     percent |-> percent, result |-> result]
            r == apply_sell(e, ref, result, token_id, percent)
        IN  [e |-> r.e, ret |-> r.ret, gw |-> <<call>>]

\* the open positions of the list, as objects
open_positions(e) ==
    LET refs == SelectSeq(e.plist, LAMBDA r : e.objs[r].status = "open")
    IN  [i \in 1..Len(refs) |-> e.objs[refs[i]]]

RECURSIVE sum(_)
\* Python sum(): the terms are added in order, starting from 0
sum(terms) ==
    IF terms = <<>> THEN Zero
    ELSE RAdd(sum(SubSeq(terms, 1, Len(terms) - 1)), terms[Len(terms)])

\* TradingEngine.get_positions (the gateway client has a get_positions too)
engine_get_positions(e) ==
    LET ps == open_positions(e)
    IN  [e |-> e, ret |-> <<[i \in 1..Len(ps) |-> to_dict(ps[i])]>>]

get_total_value(e) ==
    LET ps == open_positions(e)
    IN  [e |-> e, ret |-> <<sum([i \in 1..Len(ps) |-> current_value(ps[i])])>>]

\* faulty variant of get_total_pnl: the unrealized part is booked into the
\* realized total
get_total_pnl_booking(e) ==
    LET ps == open_positions(e)
        unrealized == sum([i \in 1..Len(ps) |-> unrealized_pnl(ps[i])])
    IN  [e |-> [e EXCEPT !.total_pnl = RAdd(e.total_pnl, unrealized)],
         ret |-> <<RAdd(e.total_pnl, unrealized)>>]

get_total_pnl(e) ==
    LET ps == open_positions(e)
        unrealized == sum([i \in 1..Len(ps) |-> unrealized_pnl(ps[i])])
    IN  [e |-> e, ret |-> <<RAdd(e.total_pnl, unrealized)>>]

\* get_orderbook: the venue's reply to /book, or None when the request fails
get_orderbook(reply) == IF reply.ok THEN <<[bids |-> reply.bids, asks |-> reply.asks]>> ELSE <<>>

\* faulty variant of float_price: the bid's price is not read
float_price_stale(entry, default) ==
    IF entry.kind = "bad" THEN <<>> ELSE <<default>>

\* float(entry.get("price", default)): <<>> when float() raises ValueError
float_price(entry, default) ==
    IF entry.kind = "num" THEN <<entry.price>>
    ELSE IF entry.kind = "nokey" THEN <<default>>
    ELSE <<>>

\* faulty variant of first_tier: the last tier met, not the first
last_tier(trs, price_multiplier) ==
    LET S == {k \in 1..Len(trs) : RLe(trs[k][1], price_multiplier)}
    IN  IF S = {} THEN 0 ELSE CHOOSE k \in S : \A j \in S : j <= k

\* the first tier, in list order, with price_multiplier >= tier_mult; 0 if none
first_tier(trs, price_multiplier) ==
    LET S == {k \in 1..Len(trs) : RLe(trs[k][1], price_multiplier)}
    IN  IF S = {} THEN 0 ELSE Min(S)

NoSweep == [raised |-> FALSE, calls |-> <<>>, checked |-> <<>>, gw |-> <<>>]

RECURSIVE sweep(_, _, _, _, _, _, _)
\* the loop of check_take_profits from its i-th element on; iter is the list
\* object the for statement holds, which execute_sell's full close replaces
\* in the engine but does not change
sweep(acc, iter, i, acct, trs, books, raws) ==
    IF i > Len(iter) THEN acc
    ELSE
    LET ref == iter[i]
        position == acc.e.objs[ref]
    IN  IF position.status # "open" THEN sweep(acc, iter, i + 1, acct, trs, books, raws)
        ELSE
        LET orderbook == get_orderbook(books[i])
            price == IF orderbook # <<>> /\ orderbook[1].bids # <<>>
                     THEN float_price(orderbook[1].bids[1], position.current_price)
                     ELSE <<position.current_price>>
        IN  IF price = <<>> THEN [acc EXCEPT !.raised = TRUE]
            ELSE
            LET e1 == [acc.e EXCEPT !.objs[ref].current_price = price[1]]
                p1 == e1.objs[ref]
                price_multiplier ==
                    IF RLt(Zero, p1.entry_price)
                    THEN RDiv(p1.current_price, p1.entry_price) ELSE Zero
                k == first_tier(trs, price_multiplier)
                chk == [i |-> i, token_id |-> p1.token_id,
                        current_price |-> p1.current_price,
                        entry_price |-> p1.entry_price]
            IN  IF k = 0
                THEN sweep([acc EXCEPT !.e = e1, !.checked = Append(@, chk)],
                           iter, i + 1, acct, trs, books, raws)
                ELSE
                LET percent == IntOf(trs[k][2])
                    r == execute_sell(e1, acct, raws[i], p1.token_id, percent)
                    c == [i |-> i, token_id |-> p1.token_id, percent |-> percent,
                          ret |-> r.ret]
                IN  sweep([ e |-> r.e, raised |-> FALSE,
                            calls |-> Append(acc.calls, c),
                            checked |-> Append(acc.checked, chk),
                            gw |-> acc.gw \o r.gw ],
                          iter, i + 1, acct, trs, books, raws)

check_take_profits(e, acct, trs, books, raws) ==
    sweep([e |-> e] @@ NoSweep, e.plist, 1, acct, trs, books, raws)

\* ---------------------------------------------------------------- inputs
Tokens == {"t1", "t2"}

Opportunity(q, t, p) ==
    [ market_id |-> "m", market_question |-> q, token_id |-> t,
      side |-> "YES", entry_price |-> p ]

\* opportunities as analyze_market builds them; market_question is None when
\* the market record carries "question": null; an entry price <= 0 is what a
\* caller other than the monitor may pass
Opportunities ==
    { Opportunity(<<"q">>, "t1", FromInt(1)),
      Opportunity(<<"q">>, "t1", <<1, 2>>),
      Opportunity(<<"q">>, "t2", FromInt(1)),
      Opportunity(<<>>, "t2", <<1, 2>>),
      Opportunity(<<"q">>, "t1", Zero),
      Opportunity(<<"q">>, "t1", <<-1, 1>>) }

\* SellRequest.percent is any int: negative and above 100 included
Percents == {-50, 0, 25, 50, 100, 150}

\* the venue's answer to sell_position's position lookup
RawSizes == { <<>>, <<FromInt(10)>>, <<FromInt(-10)>> }

BidPrices == { FromInt(1), <<5, 2>> }

BidEntries ==
    { [kind |-> "num", price |-> p] : p \in BidPrices }
    \cup { [kind |-> "nokey", price |-> Zero], [kind |-> "bad", price |-> Zero] }

BookReplies ==
    { [ok |-> FALSE, bids |-> <<>>, asks |-> <<>>],
      [ok |-> TRUE, bids |-> <<>>, asks |-> <<>>] }
    \cup { [ok |-> TRUE, bids |-> <<b>>, asks |-> <<>>] : b \in BidEntries }

\* ------------------------------------------------------- market monitor
\* Config.MIN_MARKET_VOLUME, MIN_HOURS_TO_EXPIRY, MAX_DAYS_TO_EXPIRY and
\* MAX_ENTRY_PRICE ("0.05") with the default environment
MIN_MARKET_VOLUME == 500
MIN_HOURS_TO_EXPIRY == 48
MAX_DAYS_TO_EXPIRY == 90
MAX_ENTRY_PRICE == <<1, 20>>

\* faulty variant of get_markets: the body is read whatever the status
get_markets_unchecked(reply) == reply.markets

\* get_markets: the venue's list, [] when the request fails
get_markets(reply) == IF reply.ok THEN reply.markets ELSE <<>>

\* float(market.get("volume", 0)): <<>> when float() raises
float_volume(market) ==
    IF market.volume.kind = "num" THEN <<market.volume.value>>
    ELSE IF market.volume.kind = "nokey" THEN <<0>>
    ELSE <<>>

\* faulty variant of expiry_check: the ends of the window are turned down too
expiry_check_inclusive(market) ==
    IF market.endDate.kind = "none" THEN "pass"
    ELSE IF market.endDate.kind = "bad" THEN "raise"
    ELSE IF market.endDate.hours <= MIN_HOURS_TO_EXPIRY THEN "reject"
    ELSE IF market.endDate.hours >= MAX_DAYS_TO_EXPIRY * 24 THEN "reject"
    ELSE "pass"

\* the expiry test of passes_filters; endDate is absent (or empty), an ISO
\* timestamp hours away from now, or a string fromisoformat rejects.
\* "pass", "reject", or "raise"
expiry_check(market) ==
    IF market.endDate.kind = "none" THEN "pass"
    ELSE IF market.endDate.kind = "bad" THEN "raise"
    ELSE IF market.endDate.hours < MIN_HOURS_TO_EXPIRY THEN "reject"
    ELSE IF market.endDate.hours > MAX_DAYS_TO_EXPIRY * 24 THEN "reject"
    ELSE "pass"

passes_filters(market) ==
    LET volume == float_volume(market)
    IN  IF volume = <<>> THEN FALSE                 \* except: return False
        ELSE IF volume[1] < MIN_MARKET_VOLUME THEN FALSE
        ELSE IF expiry_check(market) # "pass" THEN FALSE
        ELSE IF market.tokens = <<>> THEN FALSE
        ELSE TRUE

\* float(asks[0].get("price", 1)): <<>> when float() raises
float_ask(entry) ==
    IF entry.kind = "num" THEN <<entry.price>>
    ELSE IF entry.kind = "nokey" THEN <<FromInt(1)>>
    ELSE <<>>

RECURSIVE analyze_from(_, _, _)
\* the token loop of analyze_market from its i-th token on; books maps a
\* token id to the venue's reply to /book
analyze_from(market, i, books) ==
    IF i > Len(market.tokens) THEN <<>>
    ELSE
    LET token == market.tokens[i]
        orderbook == get_orderbook(books[token.token_id])
    IN  IF orderbook = <<>> THEN analyze_from(market, i + 1, books)
        ELSE IF orderbook[1].asks = <<>> THEN analyze_from(market, i + 1, books)
        ELSE
        LET best_ask == float_ask(orderbook[1].asks[1])
        IN  IF best_ask = <<>> THEN <<>>            \* except: falls to return None
            ELSE IF RLe(best_ask[1], MAX_ENTRY_PRICE)
            THEN << [ market_id       |-> market.id,
                      market_question |-> market.question,
                      token_id        |-> token.token_id,
                      side            |-> token.outcome,
                      entry_price     |-> best_ask[1],
                      volume          |-> market.volume,
                      end_date        |-> market.endDate ] >>
            ELSE analyze_from(market, i + 1, books)

RECURSIVE analyze_from_stop(_, _, _)
\* faulty variant of the token loop: a token without an orderbook or without
\* asks ends the loop ("return None" for "continue")
analyze_from_stop(market, i, books) ==
    IF i > Len(market.tokens) THEN <<>>
    ELSE
    LET token == market.tokens[i]
        orderbook == get_orderbook(books[token.token_id])
    IN  IF orderbook = <<>> THEN <<>>
        ELSE IF orderbook[1].asks = <<>> THEN <<>>
        ELSE
        LET best_ask == float_ask(orderbook[1].asks[1])
        IN  IF best_ask = <<>> THEN <<>>
            ELSE IF RLe(best_ask[1], MAX_ENTRY_PRICE)
            THEN << [ market_id       |-> market.id,
                      market_question |-> market.question,
                      token_id        |-> token.token_id,
                      side            |-> token.outcome,
                      entry_price     |-> best_ask[1],
                      volume          |-> market.volume,
                      end_date        |-> market.endDate ] >>
            ELSE analyze_from_stop(market, i + 1, books)

analyze_market_stop(market, books) == analyze_from_stop(market, 1, books)

analyze_market(market, books) == analyze_from(market, 1, books)

\* faulty variant of mark_seen: the id is not recorded
mark_seen_forget(seen, market_id) == seen

\* self.seen_markets.add(market_id)
mark_seen(seen, market_id) == seen \cup {market_id}

RECURSIVE scan_from(_, _, _, _)
\* the market loop of scan_new_markets from its i-th market on.  acc.seen is
\* self.seen_markets, acc.out is new_opportunities; acc.filtered lists the
\* ids handed to passes_filters, acc.skipped those found in the seen-set
scan_from(acc, markets, i, books) ==
    IF i > Len(markets) THEN acc
    ELSE
    LET market == markets[i]
    IN  IF ~market.dict THEN [acc EXCEPT !.raised = TRUE]   \* market.get: AttributeError
        ELSE IF market.id \in acc.seen
        THEN scan_from([acc EXCEPT !.skipped = @ \cup {market.id}], markets, i + 1, books)
        ELSE
        LET acc1 == [acc EXCEPT !.seen = mark_seen(@, market.id),
                                !.filtered = Append(@, market.id)]
        IN  IF ~passes_filters(market)
            THEN scan_from([acc1 EXCEPT !.turned_down = @ \cup {market.id}],
                           markets, i + 1, books)
            ELSE
            LET opportunity == analyze_market(market, books)
            IN  IF opportunity = <<>> THEN scan_from(acc1, markets, i + 1, books)
                ELSE
                LET acc2 == [acc1 EXCEPT !.out = Append(@, opportunity[1])]
                IN  \* logger.info(market.get('question', '')[:50]): TypeError on None
                    IF market.question = <<>> THEN [acc2 EXCEPT !.raised = TRUE]
                    ELSE scan_from(acc2, markets, i + 1, books)

scan_new_markets(seen, reply, books) ==
    scan_from([ seen |-> seen, out |-> <<>>, filtered |-> <<>>, skipped |-> {},
                turned_down |-> {}, raised |-> FALSE ],
              get_markets(reply), 1, books)

\* ------------------------------------------------------- monitor inputs
Volume(v) == [kind |-> "num", value |-> v]

Market(id, q, vol, end, toks) ==
    [dict |-> TRUE, id |-> id, question |-> q, volume |-> vol, endDate |-> end,
     tokens |-> toks]

InWindow == [kind |-> "iso", hours |-> 100]

Token(t) == [token_id |-> t, outcome |-> "YES"]

\* an element of the venue's reply that is not a market record
Junk == [dict |-> FALSE, id |-> "", question |-> <<>>, volume |-> Volume(0),
         endDate |-> [kind |-> "none", hours |-> 0], tokens |-> <<>>]

ScanMarkets ==
    { Market("m1", <<"q">>, Volume(1000), InWindow, <<Token("t1")>>),
      Market("m2", <<"q">>, Volume(1000), InWindow, <<Token("t2")>>),
      Market("m1", <<"q">>, Volume(100), InWindow, <<Token("t1")>>),
      Market("m2", <<>>, Volume(1000), InWindow, <<Token("t2")>>),
      Junk }

MarketIds == {"m1", "m2"}

RECURSIVE SeqsUpTo(_, _)
SeqsUpTo(S, n) ==
    IF n = 0 THEN {<<>>}
    ELSE LET shorter == SeqsUpTo(S, n - 1)
         IN  shorter \cup {Append(q, x) : q \in shorter, x \in S}

\* a failed request (an error status, whatever its body, or no response) or
\* a list of up to MaxMarkets elements
MarketReplies ==
    { [ok |-> FALSE, markets |-> ms] : ms \in SeqsUpTo(ScanMarkets, 1) }
    \cup { [ok |-> TRUE, markets |-> ms] : ms \in SeqsUpTo(ScanMarkets, MaxMarkets) }

AskEntries ==
    { [kind |-> "num", price |-> <<1, 25>>], [kind |-> "num", price |-> <<1, 10>>] }

AskReplies ==
    { [ok |-> FALSE, bids |-> <<>>, asks |-> <<>>] }
    \cup { [ok |-> TRUE, bids |-> <<>>, asks |-> <<a>>] : a \in AskEntries }

\* the market records handed to passes_filters: volume below, at and above
\* the minimum, absent, or not a number; endDate absent, around both ends of
\* the window, or not an ISO timestamp; up to MaxTokens outcome tokens
ProbeVolumes ==
    { Volume(MIN_MARKET_VOLUME - 1), Volume(MIN_MARKET_VOLUME), Volume(1000),
      [kind |-> "nokey", value |-> 0], [kind |-> "bad", value |-> 0] }

ProbeEndDates ==
    { [kind |-> "none", hours |-> 0], [kind |-> "bad", hours |-> 0] }
    \cup { [kind |-> "iso", hours |-> h] :
             h \in { MIN_HOURS_TO_EXPIRY - 1, MIN_HOURS_TO_EXPIRY, 100,
                     MAX_DAYS_TO_EXPIRY * 24, MAX_DAYS_TO_EXPIRY * 24 + 1 } }

ProbeMarkets ==
    { Market("m1", <<"q">>, v, d, ts) :
        v \in ProbeVolumes, d \in ProbeEndDates,
        ts \in SeqsUpTo({Token(t) : t \in Tokens}, MaxTokens) }

\* the best ask of an orderbook: below, at and above MAX_ENTRY_PRICE, zero,
\* without a price, or with a price that is not a number
ProbeAskEntries ==
    { [kind |-> "num", price |-> p] :
        p \in { <<1, 25>>, MAX_ENTRY_PRICE, <<1, 10>>, Zero } }
    \cup { [kind |-> "nokey", price |-> Zero], [kind |-> "bad", price |-> Zero] }

ProbeAskReplies ==
    { [ok |-> FALSE, bids |-> <<>>, asks |-> <<>>],
      [ok |-> TRUE, bids |-> <<>>, asks |-> <<>>] }
    \cup { [ok |-> TRUE, bids |-> <<>>, asks |-> <<a>>] : a \in ProbeAskEntries }

NoBooks == [t \in Tokens |-> [ok |-> FALSE, bids |-> <<>>, asks |-> <<>>]]

NoProbe ==
    [ op |-> "init", market |-> Junk, books |-> NoBooks, verdict |-> FALSE,
      ret |-> <<>> ]

\* ------------------------------------------------------- control flows
\* The periodic loop (BetzBotz.start) and the /sell request handler are
\* coroutines of one event loop.  A flow is at rest at an await ("sleep":
\* await asyncio.sleep, "idle": the handler awaiting a request); the other
\* program points are inside execute_buy and execute_sell:
\*   loop:    "order"  the gateway order is placed
\*            "append" the position is created and appended
\*   handler: "sell"   the position is looked up, the gateway sell is made
\*            "close"  the position is closed or reduced; for a full close
\*                     the list comprehension is evaluated
\*            "rebind" self.positions is assigned the new list
NoFlow ==
    [ loop    |-> [ pc |-> "sleep", opp |-> <<>>, size |-> Zero, bought |-> <<>>,
                    done_at |-> 0 ],
      handler |-> [ pc |-> "idle", token_id |-> "", percent |-> 0, raw |-> <<>>,
                    ref |-> 0, pending |-> <<>>, sold |-> <<>>, done_at |-> 0 ] ]

\* faulty variant of switch_point: the flows are threads, pre-empted anywhere
switch_point_threads(pc) == TRUE

\* where the event loop can run the other flow: at an await only
switch_point(pc) == pc \in {"sleep", "idle"}

\* the engine and the flows together, while a flow runs
World == [ positions |-> positions, trade_history |-> trade_history,
           total_pnl |-> total_pnl, steps |-> steps, flow |-> flow ]

\* a call has returned: the flow is at rest again and the call is counted
Returned(w, who, rest, fields) ==
    [w EXCEPT !.steps = w.steps + 1,
              !.flow[who] = [pc |-> rest, done_at |-> w.steps + 1] @@ fields @@ w.flow[who]]

\* one step of the loop flow: a cycle that found opportunity runs execute_buy
loop_step(w, acct, opportunity) ==
    LET f == w.flow.loop
    IN  IF f.pc = "sleep"
        THEN [w EXCEPT !.flow.loop = [f EXCEPT !.pc = "order", !.opp = <<opportunity>>,
                                               !.bought = <<>>]]
        ELSE IF f.pc = "order"
        THEN LET size == order_size(f.opp[1].entry_price)
             IN  IF RLe(size, Zero) THEN Returned(w, "loop", "sleep", <<>>)
                 ELSE IF place_order(acct, f.opp[1].token_id, "BUY",
                                     f.opp[1].entry_price, size) = <<>>
                 THEN Returned(w, "loop", "sleep", <<>>)
                 ELSE [w EXCEPT !.flow.loop = [f EXCEPT !.pc = "append", !.size = size]]
        ELSE \* "append"
             LET e == Load(w.positions, w.trade_history, w.total_pnl)
                 r == open_position(e, <<"placed">>, f.opp[1], f.size, w.steps)
             IN  Returned([w EXCEPT !.positions = Store(r.e)], "loop", "sleep",
                          [bought |-> <<w.steps>>])

\* one step of the handler flow: a /sell request runs execute_sell
handler_step(w, acct, token_id, percent, raw) ==
    LET f == w.flow.handler
        e == Load(w.positions, w.trade_history, w.total_pnl)
    IN  IF f.pc = "idle"
        THEN [w EXCEPT !.flow.handler = [f EXCEPT !.pc = "sell", !.token_id = token_id,
                                                  !.percent = percent, !.raw = raw,
                                                  !.sold = <<>>]]
        ELSE IF f.pc = "sell"
        THEN LET ref == find_position(e, f.token_id)
             IN  IF ref = 0 THEN Returned(w, "handler", "idle", <<>>)
                 ELSE IF sell_position(acct, f.raw, f.token_id, f.percent) = <<>>
                 THEN Returned(w, "handler", "idle", <<>>)
                 ELSE [w EXCEPT !.flow.handler = [f EXCEPT !.pc = "close", !.ref = ref]]
        ELSE IF f.pc = "close"
        THEN IF f.percent >= 100
             THEN LET c == full_close(e, f.ref, f.token_id)
                  IN  [w EXCEPT !.positions = c.objs,
                                !.trade_history = c.trade_history,
                                !.total_pnl = c.total_pnl,
                                !.flow.handler =
                                    [f EXCEPT !.pc = "rebind", !.pending = Store(c),
                                              !.sold = <<e.objs[f.ref].created_at>>]]
             ELSE Returned([w EXCEPT !.positions = Store(partial_close(e, f.ref, f.percent))],
                           "handler", "idle", <<>>)
        ELSE \* "rebind"
             Returned([w EXCEPT !.positions = f.pending], "handler", "idle",
                      [pending |-> <<>>])

RECURSIVE run_loop(_, _)
\* the loop flow runs on until it reaches a point where the other may run
run_loop(w, acct) ==
    IF switch_point(w.flow.loop.pc) THEN w
    ELSE run_loop(loop_step(w, acct, w.flow.loop.opp[1]), acct)

RECURSIVE run_handler(_, _)
run_handler(w, acct) ==
    IF switch_point(w.flow.handler.pc) THEN w
    ELSE LET f == w.flow.handler
         IN  run_handler(handler_step(w, acct, f.token_id, f.percent, f.raw), acct)

\* ------------------------------------------------------ bot life cycle
\* BetzBotz() as constructed; tasks are the asyncio tasks created for
\* bot.start(), each at
\*   "created" scheduled by create_task, not yet run
\*   "sleep"   inside the main loop, at await asyncio.sleep
\*   "done"    returned
\* cycles counts the scan cycles the task has started; stopped and late are
\* history: stop() was called while the task was inside the loop, and the
\* task started a scan cycle after that
NoBot == [ running |-> FALSE, start_time |-> <<>>, tasks |-> <<>>, requests |-> 0 ]

NewTask == [ pc |-> "created", cycles |-> 0, stopped |-> FALSE, late |-> FALSE ]

\* Config.POLYMARKET_PRIVATE_KEY: the wallet is loaded from it, so a loaded
\* wallet has a key; the wallet-less configuration is the one with no key
POLYMARKET_PRIVATE_KEY == IF account THEN "key" ELSE ""

\* Config.validate: the list of errors
validate(private_key) ==
    IF private_key = "" THEN <<"POLYMARKET_PRIVATE_KEY is required">> ELSE <<>>

\* "while self.running:", the test at the top of each iteration
loop_test(b) == b.running

\* one iteration of the main loop of task i, from its top: the test, then a
\* scan cycle (scan_markets awaits nothing and raises nothing) up to the sleep
iteration(b, i) ==
    IF ~loop_test(b) THEN [b EXCEPT !.tasks[i].pc = "done"]
    ELSE [b EXCEPT !.tasks[i].pc = "sleep",
                   !.tasks[i].cycles = @ + 1,
                   !.tasks[i].late = @ \/ b.tasks[i].stopped]

\* BetzBotz.start up to its first await
start(b, i, private_key) ==
    IF validate(private_key) # <<>> THEN [b EXCEPT !.tasks[i].pc = "done"]
    ELSE iteration([b EXCEPT !.running = TRUE, !.start_time = <<b.requests>>], i)

\* BetzBotz.stop; the tasks inside the loop at this moment are marked
stop(b) ==
    [b EXCEPT !.running = FALSE,
              !.tasks = [i \in 1..Len(b.tasks) |->
                            [b.tasks[i] EXCEPT !.stopped = @ \/ b.tasks[i].pc = "sleep"]]]

\* the /bot/start route
start_bot(b) ==
    [ (IF ~b.running THEN [b EXCEPT !.tasks = Append(@, NewTask)] ELSE b)
      EXCEPT !.requests = @ + 1 ]

\* the /bot/stop route
stop_bot(b) == [stop(b) EXCEPT !.requests = @ + 1]

\* ------------------------------------------------------------ the system
Ledger == [positions |-> positions, trade_history |-> trade_history,
           total_pnl |-> total_pnl]

NoCall ==
    [ op |-> "init", token_id |-> "", percent |-> 0, opp |-> <<>>, ret |-> <<>>,
      gw |-> <<>>, raised |-> FALSE, calls |-> <<>>, checked |-> <<>>,
      prev |-> <<>>,
      pre |-> [positions |-> <<>>, trade_history |-> <<>>, total_pnl |-> Zero] ]

NoScan ==
    [ op |-> "init", fetched |-> <<>>, repeat |-> FALSE, failed |-> FALSE,
      out |-> <<>>, raised |-> FALSE, filtered |-> <<>>, skipped |-> {},
      passing |-> {}, pre_seen |-> {} ]

Init ==
    /\ positions = <<>>
    /\ trade_history = <<>>
    /\ total_pnl = Zero
    /\ tiers \in TierConfigs
    /\ account \in BOOLEAN
    /\ steps = 0
    /\ last = NoCall
    /\ seen_markets = {}
    /\ filter_runs = [id \in MarketIds |-> 0]
    /\ rejected = {}
    /\ scans = 0
    /\ last_scan = NoScan
    /\ probe = NoProbe
    /\ flow = NoFlow
    /\ bot = NoBot

Commit(e) ==
    /\ positions' = Store(e)
    /\ trade_history' = e.trade_history
    /\ total_pnl' = e.total_pnl
    /\ steps' = steps + 1
    /\ UNCHANGED <<tiers, account, monitor_vars, probe, flow, bot>>

ExecuteBuy ==
    /\ steps < MaxSteps
    /\ Len(positions) < MaxPositions
    /\ \E opportunity \in Opportunities :
        LET r == execute_buy(Load(positions, trade_history, total_pnl), account,
                             opportunity, steps)
        IN  /\ Commit(r.e)
            /\ last' = [NoCall EXCEPT !.op = "execute_buy", !.opp = <<opportunity>>,
                            !.token_id = opportunity.token_id,
                            !.ret = r.ret, !.gw = r.gw, !.pre = Ledger]

ExecuteSell ==
    /\ steps < MaxSteps
    /\ \E token_id \in Tokens, percent \in Percents, raw \in RawSizes :
        LET r == execute_sell(Load(positions, trade_history, total_pnl), account,
                              raw, token_id, percent)
        IN  /\ Commit(r.e)
            /\ last' = [NoCall EXCEPT !.op = "execute_sell", !.token_id = token_id,
                            !.percent = percent,
                            !.ret = r.ret, !.gw = r.gw, !.pre = Ledger]

\* the execute_sell calls of a sweep: which positions reach one is decided
\* by the prices alone, so the venue's answer to each is chosen after them
Called(calls) == {calls[n].i : n \in 1..Len(calls)}

\* a check_take_profits call; when observed, prev keeps the orderbook
\* replies of the sweep and, if the call before was a sweep too, what that
\* one checked and sold
RunSweep(observed) ==
    \E books \in [1..Len(positions) -> BookReplies] :
        LET e == Load(positions, trade_history, total_pnl)
            dry == check_take_profits(e, account, tiers, books,
                                      [i \in 1..Len(positions) |-> <<>>])
        IN  \E sold \in SUBSET Called(dry.calls) :
            LET raws == [i \in 1..Len(positions) |->
                            IF i \in sold THEN <<FromInt(10)>> ELSE <<>>]
                r == check_take_profits(e, account, tiers, books, raws)
                before == IF last.op = "check_take_profits"
                          THEN <<[calls |-> last.calls, checked |-> last.checked]>>
                          ELSE <<>>
            IN  /\ Commit(r.e)
                /\ last' = [NoCall EXCEPT !.op = "check_take_profits",
                                !.raised = r.raised, !.calls = r.calls,
                                !.checked = r.checked, !.gw = r.gw, !.pre = Ledger,
                                !.prev = IF observed
                                         THEN <<[books |-> books, sweep |-> before]>>
                                         ELSE <<>>]

CheckTakeProfits ==
    /\ steps < MaxSteps
    /\ RunSweep(FALSE)

\* check_take_profits with its orderbook replies on record
SweepObserved ==
    /\ steps < MaxSteps
    /\ RunSweep(TRUE)

\* a read of the engine: the ledger is what the getter leaves; prev is the
\* result of the call before when that was the same getter
Read(op, r) ==
    /\ Commit(r.e)
    /\ last' = [NoCall EXCEPT !.op = op, !.ret = r.ret, !.pre = Ledger,
                    !.prev = IF last.op = op THEN last.ret ELSE <<>>]

GetPositions ==
    /\ steps < MaxSteps
    /\ Read("get_positions", engine_get_positions(Load(positions, trade_history, total_pnl)))

GetTotalValue ==
    /\ steps < MaxSteps
    /\ Read("get_total_value", get_total_value(Load(positions, trade_history, total_pnl)))

GetTotalPnl ==
    /\ steps < MaxSteps
    /\ Read("get_total_pnl", get_total_pnl(Load(positions, trade_history, total_pnl)))

Resume(w) ==
    /\ positions' = w.positions
    /\ trade_history' = w.trade_history
    /\ total_pnl' = w.total_pnl
    /\ steps' = w.steps
    /\ flow' = w.flow
    /\ UNCHANGED <<tiers, account, last, monitor_vars, probe, bot>>

\* the event loop runs the periodic loop: a new cycle when it sleeps
LoopRuns ==
    /\ flow.loop.pc = "sleep" => (steps < MaxSteps /\ Len(positions) < MaxPositions)
    /\ \E opportunity \in Opportunities :
           Resume(run_loop(loop_step(World, account, opportunity), account))

\* the event loop runs the /sell handler: a new request when it is idle
HandlerRuns ==
    /\ flow.handler.pc = "idle" => steps < MaxSteps
    /\ \E token_id \in Tokens, percent \in Percents, raw \in RawSizes :
           Resume(run_handler(handler_step(World, account, token_id, percent, raw),
                              account))

\* a /bot/start request is served
StartBot ==
    /\ bot.requests < MaxRequests
    /\ ~bot.running => Len(bot.tasks) < MaxTasks
    /\ bot' = start_bot(bot)
    /\ UNCHANGED <<engine_vars, monitor_vars, probe, flow>>

\* a /bot/stop request is served
StopBot ==
    /\ bot.requests < MaxRequests
    /\ bot' = stop_bot(bot)
    /\ UNCHANGED <<engine_vars, monitor_vars, probe, flow>>

\* the event loop runs a task of bot.start(): a created task starts, a
\* sleeping one wakes up and goes to the top of the loop
TaskRuns ==
    /\ \E i \in 1..Len(bot.tasks) :
        /\ bot.tasks[i].pc # "done"
        /\ bot.tasks[i].cycles < MaxCycles
        /\ bot' = IF bot.tasks[i].pc = "created"
                  THEN start(bot, i, POLYMARKET_PRIVATE_KEY)
                  ELSE iteration(bot, i)
    /\ UNCHANGED <<engine_vars, monitor_vars, probe, flow>>

Range(q) == {q[i] : i \in 1..Len(q)}

ScanNewMarkets ==
    /\ scans < MaxScans
    /\ \E reply \in MarketReplies, books \in [Tokens -> AskReplies] :
        LET r == scan_new_markets(seen_markets, reply, books)
            fetched == get_markets(reply)
        IN  /\ seen_markets' = r.seen
            /\ filter_runs' = [id \in MarketIds |->
                   filter_runs[id] + Cardinality({k \in 1..Len(r.filtered) : r.filtered[k] = id})]
            /\ rejected' = rejected \cup r.turned_down
            /\ scans' = scans + 1
            /\ last_scan' =
                   [ op |-> "scan_new_markets", fetched |-> fetched,
                     repeat |-> (last_scan.op = "scan_new_markets" /\ ~last_scan.failed
                                 /\ reply.ok /\ fetched = last_scan.fetched),
                     failed |-> ~reply.ok,
                     out |-> r.out, raised |-> r.raised, filtered |-> r.filtered,
                     skipped |-> r.skipped,
                     passing |-> {m.id : m \in {x \in Range(fetched) : x.dict /\ passes_filters(x)}},
                     pre_seen |-> seen_markets ]
            /\ UNCHANGED <<engine_vars, probe, flow, bot>>

\* passes_filters called on one market record (neither function keeps
\* state, so one call per behaviour covers them)
PassesFilters ==
    /\ probe.op = "init"
    /\ \E market \in ProbeMarkets :
        /\ probe' = [ op |-> "passes_filters", market |-> market,
                      books |-> NoBooks, verdict |-> passes_filters(market),
                      ret |-> <<>> ]
        /\ UNCHANGED <<engine_vars, monitor_vars, flow, bot>>

\* analyze_market called on a market that passed the filters, as
\* scan_new_markets calls it
AnalyzeMarket ==
    /\ probe.op = "init"
    /\ \E market \in ProbeMarkets, books \in [Tokens -> ProbeAskReplies] :
        /\ passes_filters(market)
        /\ probe' = [ op |-> "analyze_market", market |-> market,
                      books |-> books, verdict |-> TRUE,
                      ret |-> analyze_market(market, books) ]
        /\ UNCHANGED <<engine_vars, monitor_vars, flow, bot>>

Next == ExecuteBuy \/ ExecuteSell \/ CheckTakeProfits

Spec == Init /\ [][Next]_vars

\* the engine with its three getters, as the /positions route reads it
\* between the mutating calls
QueryInit == Init /\ account /\ tiers # DefaultTiers

QueryNext ==
    \/ ExecuteBuy \/ ExecuteSell \/ CheckTakeProfits
    \/ GetPositions \/ GetTotalValue \/ GetTotalPnl

QuerySpec == QueryInit /\ [][QueryNext]_vars

\* the periodic loop and the /sell handler on one engine, wallet loaded
FlowInit == Init /\ account /\ tiers = DefaultTiers

FlowNext == LoopRuns \/ HandlerRuns

FlowSpec == FlowInit /\ [][FlowNext]_vars

\* buys and take-profit sweeps on a loaded wallet, the sweeps on record
SweepInit == Init /\ account

SweepNext == ExecuteBuy \/ SweepObserved

SweepSpec == SweepInit /\ [][SweepNext]_vars

\* the bot's life cycle: /bot/start and /bot/stop requests and the tasks of
\* bot.start() on one event loop
BotInit == Init /\ tiers = DefaultTiers

BotNext == StartBot \/ StopBot \/ TaskRuns

BotSpec == BotInit /\ [][BotNext]_vars

\* the market monitor alone, on a wallet-less default configuration
ScanInit == Init /\ tiers = DefaultTiers /\ ~account

ScanNext == ScanNewMarkets

ScanSpec == ScanInit /\ [][ScanNext]_vars

\* the Opportunity Filter alone: passes_filters and analyze_market applied to
\* market records and orderbooks as the venue may report them
FilterInit == Init /\ tiers = DefaultTiers /\ ~account

FilterNext == PassesFilters \/ AnalyzeMarket

FilterSpec == FilterInit /\ [][FilterNext]_vars

\* ================================================================ claims
\* helpers of the claims' statements
Indices(ps, token_id) == {i \in 1..Len(ps) : ps[i].token_id = token_id}

Others(ps, token_id) == SelectSeq(ps, LAMBDA p : p.token_id # token_id)

SellFound == last.op = "execute_sell" /\ Indices(last.pre.positions, last.token_id) # {}

GatewaySold == Len(last.gw) = 1 /\ last.gw[1].result # <<>>

GatewayRefused == Len(last.gw) = 1 /\ last.gw[1].result = <<>>

\* the position execute_sell acts on: the first one of the token, before the call
Target == last.pre.positions[Min(Indices(last.pre.positions, last.token_id))]

\* C1: after any sequence of execute_buy, execute_sell and check_take_profits
\* calls the open list holds at most one position per token identifier.
\* (The code does not keep this: execute_buy never looks for an existing
\* position of the token.)
C1_OnePositionPerToken ==
    \A i, j \in 1..Len(positions) :
        positions[i].token_id = positions[j].token_id => i = j

\* C2: when execute_sell finds the position and the gateway sell returns no
\* result, the call returns None and the open list (with every position's
\* shares, status and current price), the trade history and the realized
\* total are what they were before the call.
C2_FailedSellLeavesLedger ==
    (SellFound /\ GatewayRefused) => (last.ret = <<>> /\ Ledger = last.pre)

C2_Witness ==
    /\ SellFound /\ GatewayRefused
    /\ last.percent = 50

\* C3: a successful execute_sell with percent >= 100 on an existing position
\* takes the token out of the open list, appends the position (closed) to the
\* trade history, and raises the realized total by exactly
\* current_price*shares - entry_price*shares of that position as it was
\* when the call was made.
C3_FullClose ==
    (SellFound /\ GatewaySold /\ last.percent >= 100) =>
        /\ last.ret # <<>>
        /\ Indices(positions, last.token_id) = {}
        /\ positions = Others(last.pre.positions, last.token_id)
        /\ Len(trade_history) = Len(last.pre.trade_history) + 1
        /\ SubSeq(trade_history, 1, Len(last.pre.trade_history)) = last.pre.trade_history
        /\ LET h == trade_history[Len(trade_history)]
           IN  /\ h.token_id = Target.token_id
               /\ h.status = "closed"
               /\ h.shares = Target.shares
               /\ h.entry_price = Target.entry_price
               /\ h.current_price = Target.current_price
               /\ h.created_at = Target.created_at
        /\ total_pnl = RAdd(last.pre.total_pnl,
                            RSub(RMul(Target.current_price, Target.shares),
                                 RMul(Target.entry_price, Target.shares)))

\* a full close of a position whose price has moved, so that the realized
\* total does change
C3_Witness ==
    /\ SellFound /\ GatewaySold /\ last.percent >= 100
    /\ Target.current_price # Target.entry_price
    /\ total_pnl # last.pre.total_pnl

\* C4: a successful execute_sell with 1 <= percent < 100 on an existing
\* position leaves shares * (100 - percent) / 100 of its shares (percent 50
\* halves them), keeps it in the open list with status open, and leaves the
\* realized total and the trade history unchanged.
C4_PartialClose ==
    (SellFound /\ GatewaySold /\ last.percent >= 1 /\ last.percent < 100) =>
        LET i == Min(Indices(last.pre.positions, last.token_id))
        IN  /\ last.ret # <<>>
            /\ Len(positions) = Len(last.pre.positions)
            /\ \A j \in 1..Len(positions) : j # i => positions[j] = last.pre.positions[j]
            /\ positions[i] = [Target EXCEPT !.shares = positions[i].shares]
            /\ positions[i].status = "open"
            /\ RMul(positions[i].shares, FromInt(100))
                   = RMul(Target.shares, FromInt(100 - last.percent))
            /\ (last.percent = 50 => RMul(positions[i].shares, FromInt(2)) = Target.shares)
            /\ total_pnl = last.pre.total_pnl
            /\ trade_history = last.pre.trade_history

\* a 50% sell at a price above the entry price: the sold half carries a
\* gain, and the realized total stays where it was
C4_Witness ==
    /\ SellFound /\ GatewaySold /\ last.percent = 50
    /\ RLt(Target.entry_price, Target.current_price)

\* the tiers a price multiplier meets, as positions of the configured list
MetTiers(chk) ==
    {k \in 1..Len(tiers) :
        RLe(RMul(tiers[k][1], chk.entry_price), chk.current_price)}

CallsFor(i) == {n \in 1..Len(last.calls) : last.calls[n].i = i}

\* the statement of C5; the sell percent is the tier's percent itself
\* (exact) or its integer part
TierRule(exact) ==
    last.op = "check_take_profits" =>
        /\ \A n \in 1..Len(last.calls) :
               \E c \in 1..Len(last.checked) : last.checked[c].i = last.calls[n].i
        /\ \A c \in 1..Len(last.checked) :
               LET chk == last.checked[c]
                   met == MetTiers(chk)
               IN  /\ Cardinality(CallsFor(chk.i)) <= 1
                   /\ met = {} => CallsFor(chk.i) = {}
                   /\ met # {} =>
                        \E n \in CallsFor(chk.i) :
                            /\ last.calls[n].token_id = chk.token_id
                            /\ FromInt(last.calls[n].percent) =
                                   IF exact THEN tiers[Min(met)][2]
                                   ELSE FromInt(IntOf(tiers[Min(met)][2]))

\* C5 as stated: in one sweep each open position gets at most one
\* execute_sell call, made for the first tier in configuration order whose
\* multiplier is <= current_price / entry_price, with that tier's percent.
\* (Refuted: the call is made with int(tier_pct), so a tier of 50.5 percent
\* sells 50.)
C5_FirstTierExactPercent == TierRule(TRUE)

\* C5 amended: ... with the integer part of that tier's percent.
C5_FirstTierWholePercent == TierRule(FALSE)

\* a sweep in which a position's multiplier meets several tiers at once and
\* one sell is made for it
C5_Witness ==
    /\ last.op = "check_take_profits"
    /\ \E c \in 1..Len(last.checked) :
           /\ Cardinality(MetTiers(last.checked[c])) >= 2
           /\ Cardinality(CallsFor(last.checked[c].i)) = 1

BuyCall == last.op = "execute_buy"

\* C8: execute_buy returns None and leaves the ledger as it was whenever the
\* opportunity's entry price is <= 0, in which case the gateway is not called
\* at all, or the gateway order returns no result.
C8_FailedBuyLeavesLedger ==
    /\ (BuyCall /\ RLe(last.opp[1].entry_price, Zero)) =>
           (last.ret = <<>> /\ Ledger = last.pre /\ last.gw = <<>>)
    /\ (BuyCall /\ GatewayRefused) => (last.ret = <<>> /\ Ledger = last.pre)

\* an order for a well-priced opportunity that the gateway turns down
C8_Witness ==
    /\ BuyCall /\ GatewayRefused
    /\ RLt(Zero, last.opp[1].entry_price)

\* C9: when the gateway order succeeds, execute_buy appends exactly one
\* position at the end of the open list, with status open, the opportunity's
\* entry price, current_price equal to it and shares equal to
\* max-bet-per-side / entry_price, and returns that position; no other
\* position is modified.
\* (The code does not keep the last part: with market_question None the
\* position is appended, the log line raises, and None is returned.)
C9_SuccessfulBuy ==
    (BuyCall /\ GatewaySold) =>
        /\ Len(positions) = Len(last.pre.positions) + 1
        /\ SubSeq(positions, 1, Len(last.pre.positions)) = last.pre.positions
        /\ LET p == positions[Len(positions)]
           IN  /\ p.token_id = last.opp[1].token_id
               /\ p.status = "open"
               /\ p.entry_price = last.opp[1].entry_price
               /\ p.current_price = last.opp[1].entry_price
               /\ RMul(p.shares, last.opp[1].entry_price) = MAX_BET_PER_SIDE
               /\ last.ret = <<p>>
        /\ trade_history = last.pre.trade_history
        /\ total_pnl = last.pre.total_pnl

\* C10: execute_sell for a token with no open position returns None, makes no
\* gateway call and leaves the open list, the trade history and the realized
\* total unchanged.
C10_SellUnknownToken ==
    (last.op = "execute_sell" /\ Indices(last.pre.positions, last.token_id) = {}) =>
        (last.ret = <<>> /\ last.gw = <<>> /\ Ledger = last.pre)

\* a sell for a token without a position while another token has one
C10_Witness ==
    /\ last.op = "execute_sell"
    /\ Indices(last.pre.positions, last.token_id) = {}
    /\ last.pre.positions # <<>>

ScanCall == last_scan.op = "scan_new_markets"

\* C6: across any sequence of scans each market id is handed to the
\* Opportunity Filter at most once: an id is in the seen-set from before its
\* filtering on, the seen-set never loses an element, and an id already seen
\* is not filtered again, also when the market would now pass.
C6_FilteredAtMostOnce ==
    /\ \A id \in MarketIds : filter_runs[id] <= 1
    /\ \A id \in MarketIds : filter_runs[id] = 1 => id \in seen_markets
    /\ last_scan.pre_seen \subseteq seen_markets
    /\ \A k \in 1..Len(last_scan.filtered) : last_scan.filtered[k] \notin last_scan.pre_seen
    /\ \A opp \in Range(last_scan.out) : opp.market_id \in Range(last_scan.filtered)

\* a market turned down by an earlier scan comes back passing the filters and
\* is skipped
C6_Witness ==
    /\ ScanCall
    /\ \E id \in rejected :
           /\ id \in last_scan.pre_seen
           /\ id \in last_scan.skipped
           /\ id \in last_scan.passing
           /\ filter_runs[id] = 1

\* C7: a scan returns opportunities only for markets whose id was not in the
\* seen-set when the scan reached them, and a second scan over the same set of
\* markets (here: the same list, in the same order) returns an empty list.
\* (The code does not keep the second part: an error in the loop body ends the
\* scan, and the markets behind it are still unseen at the next scan.)
C7_OnlyUnseenAndRepeatEmpty ==
    /\ \A opp \in Range(last_scan.out) : opp.market_id \notin last_scan.pre_seen
    /\ (ScanCall /\ last_scan.repeat) => last_scan.out = <<>>

\* the execute_sell calls of the last operation that closed a position: the
\* call itself, or the calls a sweep made, with percent >= 100 and a gateway
\* sell that succeeded
FullCloses ==
    IF last.op = "execute_sell"
    THEN IF SellFound /\ GatewaySold /\ last.percent >= 100 THEN 1 ELSE 0
    ELSE IF last.op = "check_take_profits"
    THEN Cardinality({n \in 1..Len(last.calls) :
            last.calls[n].percent >= 100 /\ last.calls[n].ret # <<>>})
    ELSE 0

\* C11: after any sequence of execute_buy, execute_sell (with any integer
\* percent) and check_take_profits calls every position's shares are >= 0;
\* the open list holds open positions only, and positions become closed
\* (they are the closed entries of the trade history) only inside execute_sell
\* calls with percent >= 100 whose gateway sell succeeded, one per such call.
C11_SharesAndClosing ==
    /\ \A i \in 1..Len(positions) :
           /\ RLe(Zero, positions[i].shares)
           /\ positions[i].status = "open"
    /\ \A k \in 1..Len(trade_history) :
           /\ RLe(Zero, trade_history[k].shares)
           /\ trade_history[k].status = "closed"
    /\ Len(trade_history) = Len(last.pre.trade_history) + FullCloses
    /\ \A p \in Range(last.pre.positions) :
           (\A i \in 1..Len(positions) : positions[i].created_at # p.created_at)
               => FullCloses >= 1

\* a successful sell with a negative percent (the venue reports a short
\* size): the position stays open, with more shares than before
C11_Witness ==
    /\ SellFound /\ GatewaySold /\ last.percent < 0
    /\ positions # <<>>
    /\ RLt(Target.shares, positions[Min(Indices(positions, last.token_id))].shares)

FilterCall == probe.op = "passes_filters"

\* a market record whose volume is a number (or absent, which reads as 0) and
\* whose endDate is absent or an ISO timestamp
WellFormed(m) == m.volume.kind \in {"num", "nokey"} /\ m.endDate.kind \in {"none", "iso"}

VolumeOf(m) == IF m.volume.kind = "num" THEN m.volume.value ELSE 0

\* C12: for well-formed markets passes_filters returns false whenever
\* volume < min-market-volume, whatever the other fields; false when an end
\* timestamp is present and hours-to-expiry is below min-hours-to-expiry or
\* above max-days-to-expiry * 24; false when the token list is empty; and true
\* in every other case.
C12_PassesFilters ==
    (FilterCall /\ WellFormed(probe.market)) =>
        LET m == probe.market
            low == VolumeOf(m) < MIN_MARKET_VOLUME
            out == m.endDate.kind = "iso"
                   /\ (m.endDate.hours < MIN_HOURS_TO_EXPIRY
                       \/ m.endDate.hours > MAX_DAYS_TO_EXPIRY * 24)
            bare == Len(m.tokens) = 0
        IN  /\ low => ~probe.verdict
            /\ out => ~probe.verdict
            /\ bare => ~probe.verdict
            /\ (~low /\ ~out /\ ~bare) => probe.verdict

\* a market exactly at the minimum volume and at the near end of the expiry
\* window passes
C12_Witness ==
    /\ FilterCall /\ WellFormed(probe.market)
    /\ probe.market.volume = Volume(MIN_MARKET_VOLUME)
    /\ probe.market.endDate = [kind |-> "iso", hours |-> MIN_HOURS_TO_EXPIRY]
    /\ probe.verdict

AnalyzeCall == probe.op = "analyze_market"

\* the orderbook of the i-th token of the analysed market, as the venue
\* reported it
BookOf(i) == probe.books[probe.market.tokens[i].token_id]

HasAsks(i) == BookOf(i).ok /\ BookOf(i).asks # <<>>

\* the best ask is there but is not a number
Unreadable(i) == HasAsks(i) /\ BookOf(i).asks[1].kind = "bad"

\* the best ask as a number; an entry without a price reads as 1
AskPrice(i) ==
    IF BookOf(i).asks[1].kind = "num" THEN BookOf(i).asks[1].price ELSE FromInt(1)

Qualifies(i) ==
    HasAsks(i) /\ ~Unreadable(i) /\ RLe(AskPrice(i), MAX_ENTRY_PRICE)

\* the result is the opportunity for the first token of Q, null if Q is empty
FirstOf(Q) ==
    IF Q = {} THEN probe.ret = <<>>
    ELSE /\ probe.ret # <<>>
         /\ probe.ret[1].token_id = probe.market.tokens[Min(Q)].token_id
         /\ probe.ret[1].entry_price = AskPrice(Min(Q))
         /\ probe.ret[1].market_id = probe.market.id

\* C13 as stated: analyze_market returns an Opportunity for the first token
\* in listing order whose orderbook exists, has ask entries and has best ask
\* <= max-entry-price, never for a later token when an earlier one qualifies,
\* and null when no token qualifies; tokens with no orderbook or no asks are
\* skipped.
\* (Refuted: a token whose best ask is not a number ends the analysis with
\* null, also when a later token qualifies.)
C13_FirstQualifyingToken ==
    AnalyzeCall =>
        FirstOf({i \in 1..Len(probe.market.tokens) : Qualifies(i)})

\* C13 amended: ... for the first qualifying token, provided no token before
\* it has a best ask that cannot be read as a number; such a token ends the
\* iteration and the result is null.
C13_FirstQualifyingBeforeUnreadable ==
    AnalyzeCall =>
        FirstOf({i \in 1..Len(probe.market.tokens) :
                    Qualifies(i) /\ \A j \in 1..(i - 1) : ~Unreadable(j)})

\* the first token has an orderbook without asks, the second qualifies and
\* is the one returned
C13_Witness ==
    /\ AnalyzeCall
    /\ Len(probe.market.tokens) = 2
    /\ probe.market.tokens[1].token_id # probe.market.tokens[2].token_id
    /\ BookOf(1).ok /\ ~HasAsks(1)
    /\ Qualifies(2)
    /\ probe.ret # <<>>
    /\ probe.ret[1].token_id = probe.market.tokens[2].token_id

\* C14: every Opportunity analyze_market returns has an entry price that is
\* strictly greater than 0, at most 1, and at most the max-entry-price
\* configured when it is created.
\* (The code does not keep the first part: the best ask is compared with
\* MAX_ENTRY_PRICE only, so an ask of 0 becomes an entry price of 0.)
C14_EntryPriceRange ==
    (AnalyzeCall /\ probe.ret # <<>>) =>
        /\ RLt(Zero, probe.ret[1].entry_price)
        /\ RLe(probe.ret[1].entry_price, FromInt(1))
        /\ RLe(probe.ret[1].entry_price, MAX_ENTRY_PRICE)

\* C19: in passes_filters a market whose end timestamp is missing or cannot
\* be parsed gets no expiry check: it passes when its volume and token
\* criteria are met.
\* (The code does not keep the second case: fromisoformat raises, and the
\* except clause of passes_filters returns False.)
C19_NoExpiryCheckPossible ==
    (/\ FilterCall
     /\ probe.market.endDate.kind \in {"none", "bad"}
     /\ probe.market.volume.kind = "num"
     /\ probe.market.volume.value >= MIN_MARKET_VOLUME
     /\ probe.market.tokens # <<>>) => probe.verdict

\* C15: when the gateway market fetch fails, scan_new_markets returns an
\* empty list, nothing is raised, no market is filtered and the seen-set is
\* what it was; so a market that a later successful fetch lists first is
\* still evaluated then, unless an earlier successful scan has seen it.
C15_FailedFetch ==
    /\ (ScanCall /\ last_scan.failed) =>
           /\ last_scan.out = <<>>
           /\ ~last_scan.raised
           /\ last_scan.filtered = <<>>
           /\ seen_markets = last_scan.pre_seen
    /\ (ScanCall /\ ~last_scan.failed /\ last_scan.fetched # <<>>) =>
           LET first == last_scan.fetched[1]
           IN  (first.dict /\ first.id \notin last_scan.pre_seen)
                   => first.id \in Range(last_scan.filtered)

\* a failed fetch after a scan that has seen one market: the seen-set keeps
\* that market, and the other one is still unseen
C15_Witness ==
    /\ ScanCall /\ last_scan.failed
    /\ scans = 2
    /\ seen_markets # {}
    /\ seen_markets # MarketIds

\* C18: an error raised while one market of a scan or one position of a
\* sweep is processed (a malformed market record, a malformed orderbook
\* entry) does not escape the call and does not keep the remaining markets or
\* positions of that cycle from being processed.
\* (The code does not keep this: check_take_profits has no handler at all,
\* and the handler of scan_new_markets encloses the whole loop.)
C18_ErrorsIsolated ==
    /\ last.op = "check_take_profits" =>
           /\ ~last.raised
           /\ Len(last.checked) = Len(last.pre.positions)
    /\ ScanCall =>
           \A k \in 1..Len(last_scan.fetched) :
               last_scan.fetched[k].dict => last_scan.fetched[k].id \in seen_markets

\* C17: the trade history is append-only: an operation never makes it
\* shorter, the entries it had stay what and where they were, and an entry
\* is appended only by a successful full-close execute_sell (a direct one or
\* one made by a sweep), one per such call, as a snapshot of the position
\* that call closed: a position of the open list before the operation that
\* is no longer in it.
C17_HistoryAppendOnly ==
    /\ Len(trade_history) >= Len(last.pre.trade_history)
    /\ SubSeq(trade_history, 1, Len(last.pre.trade_history)) = last.pre.trade_history
    /\ Len(trade_history) = Len(last.pre.trade_history) + FullCloses
    /\ \A k \in (Len(last.pre.trade_history) + 1)..Len(trade_history) :
           LET h == trade_history[k]
           IN  /\ h.status = "closed"
               /\ \E p \in Range(last.pre.positions) :
                      /\ h.token_id = p.token_id
                      /\ h.created_at = p.created_at
                      /\ h.entry_price = p.entry_price
                      \* a sweep re-prices the position, and may sell a
                      \* part of it, before the call that closes it
                      /\ last.op = "execute_sell" =>
                             (h.shares = p.shares /\ h.current_price = p.current_price)
               /\ \A i \in 1..Len(positions) : positions[i].token_id # h.token_id
    /\ \A j, k \in 1..Len(trade_history) :
           (j # k /\ trade_history[j].token_id = trade_history[k].token_id)
               => trade_history[j].created_at # trade_history[k].created_at

\* one sweep closes two positions: the history receives both snapshots, in
\* the order the positions were closed
C17_Witness ==
    /\ last.op = "check_take_profits"
    /\ Len(last.pre.trade_history) = 0
    /\ Len(trade_history) = 2
    /\ trade_history[1].token_id = last.pre.positions[1].token_id
    /\ trade_history[2].token_id = last.pre.positions[2].token_id

GetterCall == last.op \in {"get_positions", "get_total_value", "get_total_pnl"}

RECURSIVE Gains(_)
\* (current_price - entry_price) * shares, summed over the open positions of ps
Gains(ps) ==
    IF ps = <<>> THEN Zero
    ELSE LET p == Head(ps)
         IN  RAdd(IF p.status = "open"
                  THEN RMul(RSub(p.current_price, p.entry_price), p.shares)
                  ELSE Zero,
                  Gains(Tail(ps)))

\* C16: get_positions, get_total_value and get_total_pnl change no engine
\* state; a getter called again with no mutating call in between returns
\* what it returned before; and get_total_pnl returns the realized total
\* plus the sum of the unrealized PnL of the open positions.
C16_GettersPure ==
    GetterCall =>
        /\ Ledger = last.pre
        /\ last.ret # <<>>
        /\ last.prev # <<>> => last.ret = last.prev
        /\ last.op = "get_total_pnl" =>
               last.ret[1] = RAdd(total_pnl, Gains(positions))
        /\ last.op = "get_positions" =>
               /\ Len(last.ret[1]) = Len(positions)
               /\ \A i \in 1..Len(positions) :
                      /\ last.ret[1][i].token_id = positions[i].token_id
                      /\ last.ret[1][i].shares = positions[i].shares

\* get_total_pnl read after a sweep has re-priced an open position: the
\* result is the realized total plus that position's gain
C16_Witness ==
    /\ last.op = "get_total_pnl"
    /\ positions # <<>>
    /\ Gains(positions) # Zero
    /\ last.ret[1] # total_pnl

AtRest == flow.loop.pc = "sleep" /\ flow.handler.pc = "idle"

\* the last two calls to return were an execute_buy that appended a
\* position and an execute_sell that closed one in full, in either order
BuyAndFullClose ==
    /\ AtRest
    /\ flow.loop.bought # <<>>
    /\ flow.handler.sold # <<>>
    /\ {flow.loop.done_at, flow.handler.done_at} = {steps - 1, steps}

Stamps(ps) == {ps[i].created_at : i \in 1..Len(ps)}

\* C20: when execute_buy and a successful full-close execute_sell on a
\* different token are run by the periodic loop and by the /sell handler,
\* whose steps interleave as the event loop allows, no update is lost: once
\* both have returned, the bought position is in the open list, the sold one
\* is not, and it is in the trade history.
C20_NoLostUpdate ==
    (BuyAndFullClose /\ flow.loop.opp[1].token_id # flow.handler.token_id) =>
        /\ flow.loop.bought[1] \in Stamps(positions)
        /\ flow.handler.sold[1] \notin Stamps(positions)
        /\ flow.handler.sold[1] \in Stamps(trade_history)
        /\ \A i \in 1..Len(positions) : positions[i].status = "open"

\* the handler closed one token in full right after the loop had bought
\* another one
C20_Witness ==
    /\ BuyAndFullClose
    /\ flow.loop.opp[1].token_id # flow.handler.token_id
    /\ flow.handler.done_at = steps
    /\ Len(positions) >= 1

\* ---------------------------------------------------------------- C21
\* C21: once stop() has been called, every main loop that was running at that
\* moment exits at the top of its next iteration: no task that was inside the
\* loop when stop() was called starts a scan cycle afterwards.
C21_StoppedLoopsExit ==
    \A i \in 1..Len(bot.tasks) : ~bot.tasks[i].late

\* ---------------------------------------------------------------- C22
\* a sweep that directly follows a sweep, and what that one checked and sold
SweepAfterSweep ==
    /\ last.op = "check_take_profits"
    /\ last.prev # <<>>
    /\ last.prev[1].sweep # <<>>

Before == last.prev[1].sweep[1]

\* the tier the check selects for a checked position: the first one met
TierOf(chk) == Min(MetTiers(chk))

\* the sweep before sold a part of position j (as the list has it before this
\* sweep) through tier k and left the list as it was, and in this sweep the
\* position's multiplier selects tier k again
Retriggered(j, k) ==
    /\ SweepAfterSweep
    /\ \A n \in 1..Len(Before.calls) :
           Before.calls[n].ret # <<>> => Before.calls[n].percent < 100
    /\ j = Min(Indices(last.pre.positions, last.pre.positions[j].token_id))
    /\ \E n \in 1..Len(Before.calls), c \in 1..Len(Before.checked) :
           /\ Before.calls[n].i = j /\ Before.checked[c].i = j
           /\ Before.calls[n].ret # <<>>
           /\ Before.calls[n].percent >= 1
           /\ TierOf(Before.checked[c]) = k
    /\ \E c \in 1..Len(last.checked) :
           /\ last.checked[c].i = j
           /\ MetTiers(last.checked[c]) # {}
           /\ TierOf(last.checked[c]) = k

CallsOn(token_id) == {n \in 1..Len(last.calls) : last.calls[n].token_id = token_id}

\* C22: no tier is consumed.  When a sweep has sold a part of a position
\* through a tier and on the next sweep the position's multiplier meets that
\* tier again, the tier fires again: execute_sell is called for the position
\* with the tier's (whole) percent, and a successful sell takes that percent
\* of the shares that were left, not of the size the position was bought
\* with.
C22_TierFiresAgain ==
    \A j \in 1..Len(last.pre.positions), k \in 1..Len(tiers) :
        Retriggered(j, k) =>
            LET p == last.pre.positions[j]
                pct == IntOf(tiers[k][2])
                bought == order_size(p.entry_price)
            IN  \E n \in CallsFor(j) :
                    /\ last.calls[n].token_id = p.token_id
                    /\ last.calls[n].percent = pct
                    /\ (last.calls[n].ret # <<>> /\ CallsOn(p.token_id) = {n}) =>
                           \E i \in 1..Len(positions) :
                               /\ positions[i].created_at = p.created_at
                               /\ positions[i].status = "open"
                               /\ RMul(positions[i].shares, FromInt(100))
                                      = RMul(p.shares, FromInt(100 - pct))
                               /\ positions[i].shares
                                      # RSub(p.shares, RMul(bought, Rat(pct, 100)))

\* two sweeps in a row sold through the same tier from one position: the
\* second sell was made on shares the first had already reduced
C22_Witness ==
    \E j \in 1..Len(last.pre.positions), k \in 1..Len(tiers) :
        /\ Retriggered(j, k)
        /\ RLt(last.pre.positions[j].shares,
               order_size(last.pre.positions[j].entry_price))
        /\ \E n \in CallsFor(j) :
               /\ last.calls[n].ret # <<>>
               /\ CallsOn(last.pre.positions[j].token_id) = {n}

\* ---------------------------------------------------------------- C23
\* a sweep with its orderbook replies on record
SweepSeen == last.op = "check_take_profits" /\ last.prev # <<>>

BidsOf(i) ==
    LET b == last.prev[1].books[i] IN IF b.ok THEN b.bids ELSE <<>>

\* the positions whose first bid has an unreadable price: float() raises there
Raising == {i \in 1..Len(last.pre.positions) :
               BidsOf(i) # <<>> /\ BidsOf(i)[1].kind = "bad"}

\* the positions the sweep asked the gateway about and priced
Priced == {i \in 1..Len(last.pre.positions) : \A j \in 1..i : j \notin Raising}

CheckOf(i) == last.checked[CHOOSE c \in 1..Len(last.checked) : last.checked[c].i = i]

\* the price position i has after the sweep's re-pricing
PriceAfter(i) ==
    IF i \in Priced THEN CheckOf(i).current_price
    ELSE last.pre.positions[i].current_price

\* C23: in a sweep a position's current_price becomes the first (best) bid of
\* the orderbook the gateway returned, and stays what it was when the
\* orderbook is missing or has no bids; the tier check runs on that price
\* all the same; the entry price and created-at of a position, and the shares
\* of a position no sell was triggered for, are not changed.
C23_Reprice ==
    SweepSeen =>
        /\ \A i \in Priced :
               /\ \E c \in 1..Len(last.checked) : last.checked[c].i = i
               /\ (BidsOf(i) # <<>> /\ BidsOf(i)[1].kind = "num") =>
                      CheckOf(i).current_price = BidsOf(i)[1].price
               /\ BidsOf(i) = <<>> =>
                      CheckOf(i).current_price = last.pre.positions[i].current_price
               /\ CheckOf(i).entry_price = last.pre.positions[i].entry_price
               /\ MetTiers(CheckOf(i)) # {} <=> CallsFor(i) # {}
        /\ \A n \in 1..Len(positions) :
               \E i \in 1..Len(last.pre.positions) :
                   LET p == last.pre.positions[i]
                   IN  /\ positions[n] = [p EXCEPT !.current_price = PriceAfter(i),
                                                   !.shares = positions[n].shares]
                       /\ CallsOn(p.token_id) = {} => positions[n].shares = p.shares

\* a sweep found no orderbook or no bids for a position whose price, set by
\* an earlier sweep, meets a tier: the sell was triggered on the stale price
C23_Witness ==
    /\ SweepSeen
    /\ \E i \in Priced :
           /\ BidsOf(i) = <<>>
           /\ last.pre.positions[i].current_price # last.pre.positions[i].entry_price
           /\ MetTiers(CheckOf(i)) # {}
           /\ CallsFor(i) # {}
           /\ \E n \in 1..Len(positions) :
                  /\ positions[n].created_at = last.pre.positions[i].created_at
                  /\ positions[n].current_price = last.pre.positions[i].current_price

\* ---------------------------------------------------------------- C24
\* C24: the number of open positions plus the number of trade-history
\* records equals the number of successful execute_buy calls.  Stated call by
\* call: the sum grows by one in a successful execute_buy and stays what it
\* was in every other call (a full close takes one position off the list
\* and adds one record).
C24_OpenPlusHistoryCountsBuys ==
    Len(positions) + Len(trade_history)
        = Len(last.pre.positions) + Len(last.pre.trade_history)
          + (IF last.op = "execute_buy" /\ last.ret # <<>> THEN 1 ELSE 0)

\* ---------------------------------------------------------------- C25
PnlOf(ledger) ==
    get_total_pnl(Load(ledger.positions, ledger.trade_history, ledger.total_pnl)).ret[1]

\* a sweep whose only execute_sell call is a successful full close, made for
\* the last position of the list: the ledger right before that call is the
\* one before the sweep with the sweep's prices, the ledger right after it is
\* the one the sweep leaves
FullCloseInSweep ==
    /\ last.op = "check_take_profits"
    /\ ~last.raised
    /\ Len(last.calls) = 1
    /\ last.calls[1].i = Len(last.pre.positions)
    /\ last.calls[1].ret # <<>>
    /\ last.calls[1].percent >= 100

BeforeCall ==
    [last.pre EXCEPT !.positions =
        [i \in 1..Len(last.pre.positions) |->
            [last.pre.positions[i] EXCEPT !.current_price = CheckOf(i).current_price]]]

\* C25: a successful full-close execute_sell leaves get_total_pnl() as it
\* was, whether the call comes from outside or from a take-profit sweep.
C25_FullCloseKeepsTotalPnl ==
    /\ (SellFound /\ GatewaySold /\ last.percent >= 100) =>
           PnlOf(Ledger) = PnlOf(last.pre)
    /\ FullCloseInSweep => PnlOf(Ledger) = PnlOf(BeforeCall)
====
